---- MODULE Spec2Model ----
(***************************************************************************)
(* Model of cfnlambda.py: the Status class, the JSON encoding done by      *)
(* cfn_response, and handler_wrapper (the function handler_decorator puts  *)
(* around an AWS Lambda handler).                                          *)
(*                                                                         *)
(* A Python value is a record [ty, txt, items]: ty is the Python type,     *)
(* txt the text of an atom as a sequence of text fragments (so that        *)
(* "contains" is a sub-sequence test), items the members of a container.   *)
(* A Status instance carries its object identity in txt, since the class   *)
(* defines no __eq__ and == on instances is identity.                      *)
(***************************************************************************)
EXTENDS Integers, Sequences, FiniteSets, TLC

\* Number of invocations one Lambda process (one module load) serves.
MaxInvocations == 2

----------------------------------------------------------------------------
\* Python values

Val(ty, txt, items) == [ty |-> ty, txt |-> txt, items |-> items]

PyNone == Val("NoneType", <<>>, <<>>)
PyFalse == Val("bool", <<"False">>, <<>>)
PyTrue == Val("bool", <<"True">>, <<>>)
PyInt(lit) == Val("int", <<lit>>, <<>>)
PyFloat(lit) == Val("float", <<lit>>, <<>>)
PyStr(text) == Val("str", text, <<>>)
PySet(repr) == Val("set", <<repr>>, <<>>)
PyList(members) == Val("list", <<>>, members)
PyTuple(members) == Val("tuple", <<>>, members)
Item(key, v) == Val("item", <<key>>, <<v>>)
PyDict(entries) == Val("dict", <<>>, entries)

\* No value: a local that is not bound, a function that has not returned.
Unset == Val("unset", <<>>, <<>>)

\* bool(v): None, False, 0, 0.0, '' and empty containers are false; an
\* instance of the old-style class Status (no __nonzero__, no __len__) is true.
Truthy(v) ==
    CASE v.ty = "NoneType" -> FALSE
      [] v.ty = "bool" -> v = PyTrue
      [] v.ty = "int" -> v.txt # <<"0">>
      [] v.ty = "float" -> v.txt # <<"0.0">>
      [] v.ty = "str" -> v.txt # <<>>
      [] v.ty \in {"dict", "list", "tuple"} -> v.items # <<>>
      [] OTHER -> TRUE

\* sub in text, for str
Contains(text, sub) ==
    \E i \in 0..(Len(text) - Len(sub)) : SubSeq(text, i + 1, i + Len(sub)) = sub

HasKey(d, key) == \E i \in 1..Len(d.items) : d.items[i].txt = <<key>>

\* d.get(key, default)
DictGet(d, key, default) ==
    IF HasKey(d, key)
    THEN d.items[CHOOSE i \in 1..Len(d.items) : d.items[i].txt = <<key>>].items[1]
    ELSE default

RECURSIVE ReplaceItem(_, _, _)
ReplaceItem(entries, key, v) ==
    IF entries = <<>> THEN <<>>
    ELSE <<IF Head(entries).txt = <<key>> THEN Item(key, v) ELSE Head(entries)>>
         \o ReplaceItem(Tail(entries), key, v)

\* d[key] = v
DictSet(d, key, v) ==
    IF HasKey(d, key)
    THEN PyDict(ReplaceItem(d.items, key, v))
    ELSE PyDict(Append(d.items, Item(key, v)))

----------------------------------------------------------------------------
\* class Status

NewStatus(id, value, reason) == Val("Status", <<id>>, <<value, reason>>)

Status_SUCCESS == NewStatus("Status.SUCCESS", PyStr(<<"SUCCESS">>), PyNone)
Status_FAILED == NewStatus("Status.FAILED", PyStr(<<"FAILED">>), PyNone)

getFailed(id, reason) == NewStatus(id, PyStr(<<"FAILED">>), reason)
getFinished(id, status) == NewStatus(id, status, PyNone)

IsStatus(v) == v.ty = "Status"
StatusValue(self) == self.items[1]
StatusReason(self) == self.items[2]

isFinished(self) == IsStatus(StatusValue(self))

isSuccess(self) ==
    \/ StatusValue(self) = PyStr(<<"SUCCESS">>)
    \/ (isFinished(self) /\ StatusValue(StatusValue(self)) = PyStr(<<"SUCCESS">>))

isFailed(self) ==
    \/ StatusValue(self) = PyStr(<<"FAILED">>)
    \/ (isFinished(self) /\ StatusValue(StatusValue(self)) = PyStr(<<"FAILED">>))

RECURSIVE Status_repr(_)
Status_repr(self) ==
    LET r == IF IsStatus(StatusValue(self)) THEN Status_repr(StatusValue(self))
             ELSE StatusValue(self).txt
    IN  IF Truthy(StatusReason(self))
        THEN r \o <<"(">> \o StatusReason(self).txt \o <<")">>
        ELSE r

RequestType_CREATE == "Create"
RequestType_DELETE == "Delete"
RequestType_UPDATE == "Update"

----------------------------------------------------------------------------
\* json.dumps and json.loads

\* The types json.JSONEncoder encodes by itself.
NativeJson(v) ==
    v.ty \in {"NoneType", "bool", "int", "float", "str", "dict", "list", "tuple"}

\* PythonObjectEncoder.default(obj): called for a value that is not native;
\* every object has __repr__, so the result is the repr string.
PythonObjectEncoder_default(obj) ==
    IF IsStatus(obj) THEN PyStr(Status_repr(obj)) ELSE PyStr(obj.txt)

\* Whether json.dumps(v, cls=cls) returns; otherwise it raises TypeError.
RECURSIVE JsonEncodable(_, _)
JsonEncodable(v, cls) ==
    IF NativeJson(v)
    THEN \A i \in 1..Len(v.items) :
            JsonEncodable(IF v.ty = "dict" THEN v.items[i].items[1] ELSE v.items[i], cls)
    ELSE cls = "PythonObjectEncoder"

\* The JSON document json.dumps(v, cls=cls) writes.
RECURSIVE JsonDoc(_, _)
RECURSIVE JsonDocs(_, _)
JsonDoc(v, cls) ==
    CASE v.ty = "NoneType" -> Val("null", <<>>, <<>>)
      [] v.ty = "bool" -> Val("boolean", IF v = PyTrue THEN <<"true">> ELSE <<"false">>, <<>>)
      [] v.ty = "int" -> Val("integer", v.txt, <<>>)
      [] v.ty = "float" -> Val("real", v.txt, <<>>)
      [] v.ty = "str" -> Val("string", v.txt, <<>>)
      [] v.ty = "dict" -> Val("object", <<>>, JsonDocs(v.items, cls))
      [] v.ty \in {"list", "tuple"} -> Val("array", <<>>, JsonDocs(v.items, cls))
      [] v.ty = "item" -> Val("member", v.txt, <<JsonDoc(v.items[1], cls)>>)
      [] OTHER -> JsonDoc(PythonObjectEncoder_default(v), cls)

JsonDocs(members, cls) ==
    IF members = <<>> THEN <<>>
    ELSE <<JsonDoc(Head(members), cls)>> \o JsonDocs(Tail(members), cls)

\* json.loads of a document: what the receiver of the PUT decodes.
RECURSIVE JsonLoads(_)
RECURSIVE JsonLoadsAll(_)
JsonLoads(doc) ==
    CASE doc.ty = "null" -> PyNone
      [] doc.ty = "boolean" -> IF doc.txt = <<"true">> THEN PyTrue ELSE PyFalse
      [] doc.ty = "integer" -> PyInt(doc.txt[1])
      [] doc.ty = "real" -> PyFloat(doc.txt[1])
      [] doc.ty = "string" -> PyStr(doc.txt)
      [] doc.ty = "object" -> PyDict(JsonLoadsAll(doc.items))
      [] doc.ty = "member" -> Item(doc.txt[1], JsonLoads(doc.items[1]))
      [] OTHER -> PyList(JsonLoadsAll(doc.items))

JsonLoadsAll(docs) ==
    IF docs = <<>> THEN <<>>
    ELSE <<JsonLoads(Head(docs))>> \o JsonLoadsAll(Tail(docs))

----------------------------------------------------------------------------
\* The inputs: requests, execution contexts, handler behaviours

Events ==
    [StackId : {"stack-1"}, RequestId : {"req-1"}, LogicalResourceId : {"MyResource"},
     ResponseURL : {"https://cfn.example/response"},
     RequestType : {RequestType_CREATE, RequestType_UPDATE, RequestType_DELETE}]

\* LambdaContext objects: the two log names, and an attribute json cannot encode.
Contexts ==
    [log_stream_name : {"2015/10/29/stream-a", "2015/10/29/stream-b"},
     log_group_name : {"/aws/lambda/fn"},
     identity : {Val("CognitoIdentity", <<"<CognitoIdentity object>">>, <<>>)}]

HandlerNames == {<<"lambda_handler">>, <<"cleanup">>}

EmptyDict == PyDict(<<>>)
SumDict == PyDict(<<Item("sum", PyFloat("3.5"))>>)
TextDict == PyDict(<<Item("k", PyStr(<<"v">>))>>)
SetDict == PyDict(<<Item("ids", PySet("set([1, 2, 3])"))>>)

\* Status objects the handler builds itself.
HandlerFailed == getFailed("handler#failed", PyStr(<<"quota exceeded">>))
FinishedSuccess == getFinished("handler#finished", Status_SUCCESS)
FinishedFailed == getFinished("handler#finished", Status_FAILED)
FinishedMarkers == {FinishedSuccess, FinishedFailed}
TerminalStatuses == {Status_SUCCESS, Status_FAILED, HandlerFailed}

Mappings == {EmptyDict, SumDict, TextDict, SetDict}
Scalars == {PyTrue, PyInt("7"), PyFloat("3.5"), PyStr(<<"done">>),
            PyList(<<PyInt("1")>>), PySet("set([1, 2, 3])")}
\* False, 0, '', [], () ({} is among the mappings)
FalseLike == {PyFalse, PyInt("0"), PyStr(<<>>), PyList(<<>>), PyTuple(<<>>)}
StatusFirstPairs == {PyTuple(<<st, m>>) : st \in TerminalStatuses, m \in {EmptyDict, TextDict}}
StatusSecondPairs == {PyTuple(<<m, st>>) : st \in TerminalStatuses, m \in {TextDict}}

ReturnValues ==
    {PyNone} \cup Mappings \cup Scalars \cup FalseLike \cup TerminalStatuses
    \cup FinishedMarkers \cup StatusFirstPairs \cup StatusSecondPairs

\* e.message of the exception raised: ValueError("bad input"), or '' as for
\* an exception built with no argument. The exceptions are instances of
\* Exception, the ones "except Exception" catches.
ExceptionMessages == {<<"bad input">>, <<>>}

Returns(v) == [kind |-> "return", val |-> v, msg |-> <<>>]
Raises(m) == [kind |-> "raise", val |-> PyNone, msg |-> m]
NoEvent ==
    [StackId |-> "", RequestId |-> "", LogicalResourceId |-> "", ResponseURL |-> "",
     RequestType |-> ""]
NoContext == [log_stream_name |-> "", log_group_name |-> "", identity |-> PyNone]
NoOutcome == [kind |-> "none", val |-> PyNone, msg |-> <<>>]

HandlerOutcomes == {Returns(v) : v \in ReturnValues} \cup {Raises(m) : m \in ExceptionMessages}

\* What requests.put does: a response with this status code, or an exception.
PutOutcomes == {"200", "403", "ConnectionError"}
\* What boto3's delete_log_group does.
LogDeleteOutcomes == {"ok", "ClientError"}

\* Arguments of a direct call of cfn_response.
DirectStatuses ==
    TerminalStatuses \cup FinishedMarkers \cup {PyStr(<<"SUCCESS">>), PyStr(<<"FAILED">>)}
DirectData == {EmptyDict, SumDict, SetDict}
DirectPhysicalIds == {PyNone, PyStr(<<"my-resource-id">>)}

----------------------------------------------------------------------------
\* cfn_response, up to the PUT

DefaultReason(ctx) ==
    <<"See the details in CloudWatch Log Stream: ", ctx.log_stream_name>>

\* The dict cfn_response builds.
ResponseBody(ev, ctx, response_status, response_data, physical_resource_id) ==
    PyDict(<<
        Item("Status", IF IsStatus(response_status) THEN StatusValue(response_status)
                       ELSE response_status),
        Item("Reason", IF IsStatus(response_status) /\ Truthy(StatusReason(response_status))
                       THEN StatusReason(response_status)
                       ELSE PyStr(DefaultReason(ctx))),
        Item("PhysicalResourceId", IF physical_resource_id = PyNone
                                   THEN PyStr(<<ctx.log_stream_name>>)
                                   ELSE physical_resource_id),
        Item("StackId", PyStr(<<ev.StackId>>)),
        Item("RequestId", PyStr(<<ev.RequestId>>)),
        Item("LogicalResourceId", PyStr(<<ev.LogicalResourceId>>)),
        Item("Data", response_data) >>)

\* cfn_response before requests.put: a Finished status returns at once; the
\* body goes through json.dumps with the standard encoder, outside any try.
cfn_response(ev, ctx, response_status, response_data, physical_resource_id) ==
    LET body == ResponseBody(ev, ctx, response_status, response_data, physical_resource_id)
    IN  IF IsStatus(response_status) /\ isFinished(response_status)
        THEN [put |-> FALSE, raises |-> "none", body |-> Unset]
        ELSE IF ~JsonEncodable(body, "JSONEncoder")
        THEN [put |-> FALSE, raises |-> "TypeError", body |-> Unset]
        ELSE [put |-> TRUE, raises |-> "none", body |-> JsonDoc(body, "JSONEncoder")]

\* What cfn_response returns after the PUT: the response, or None when
\* requests.put raised (the except clause logs and falls off the end).
PutReturn(po) ==
    IF po = "ConnectionError" THEN PyNone ELSE Val("Response", <<po>>, <<>>)

----------------------------------------------------------------------------
\* handler_wrapper, up to the Delete handling

\* The exception branch with the plain FAILED constant: no reason kept.
ExceptionStatus_NoReason(name, message) == Status_FAILED

ExceptionStatus(name, message) ==
    getFailed("wrapper#failed",
              PyStr(<<"Function ">> \o name \o <<" failed due to exception \"">>
                    \o message \o <<"\".">>))

ReturnedFalseMessage(name) == <<"Function ">> \o name \o <<" returned False.">>

HideWarning ==
    "There may be resources created by the AWS Lambda that have not been deleted and cleaned up despite the fact that the stack status may be DELETE_COMPLETE."

\* The try block with only False, not every false value, counted as failure.
TryHandler_OnlyFalseFails(name, o) ==
    IF o.kind = "raise"
    THEN [status |-> ExceptionStatus(name, o.msg), result |-> EmptyDict]
    ELSE LET r == o.val
             split ==
                IF IsStatus(r) THEN [status |-> r, result |-> PyNone]
                ELSE IF r.ty = "tuple" /\ Len(r.items) = 2 /\ IsStatus(r.items[2])
                THEN [status |-> r.items[1], result |-> r.items[2]]
                ELSE [status |-> IF r # PyFalse THEN Status_SUCCESS ELSE Status_FAILED,
                      result |-> r]
         IN  IF split.result = PyFalse
             THEN [status |-> Status_FAILED,
                   result |-> PyDict(<<Item("result", PyStr(ReturnedFalseMessage(name)))>>)]
             ELSE split

\* The try block: status and result from what the handler did.
TryHandler(name, o) ==
    IF o.kind = "raise"
    THEN [status |-> ExceptionStatus(name, o.msg), result |-> EmptyDict]
    ELSE LET r == o.val
             split ==
                IF IsStatus(r) THEN [status |-> r, result |-> PyNone]
                ELSE IF r.ty = "tuple" /\ Len(r.items) = 2 /\ IsStatus(r.items[2])
                THEN [status |-> r.items[1], result |-> r.items[2]]
                ELSE [status |-> IF Truthy(r) THEN Status_SUCCESS ELSE Status_FAILED,
                      result |-> r]
         IN  IF split.result = PyFalse
             THEN [status |-> Status_FAILED,
                   result |-> PyDict(<<Item("result", PyStr(ReturnedFalseMessage(name)))>>)]
             ELSE split

\* Without "if not result: result = {}".
Normalize_KeepFalsy(name, o) == TryHandler(name, o)

\* The try block, then "if not result: result = {}".
Normalize(name, o) ==
    LET t == TryHandler(name, o)
    IN  [status |-> t.status, result |-> IF Truthy(t.result) THEN t.result ELSE EmptyDict]

\* status == Status.FAILED: Status defines no __eq__, so this is identity.
IsStatusFAILED(st) == st = Status_FAILED

\* The first Delete branch: a hidden failure becomes SUCCESS with a warning.
HideFailure(st, res, hide) ==
    IF IsStatusFAILED(st) /\ hide
    THEN [status |-> Status_SUCCESS,
          result |-> DictSet(res, "result",
                             PyStr(DictGet(res, "result", PyStr(<<>>)).txt
                                   \o <<" ", HideWarning>>))]
    ELSE [status |-> st, result |-> res]

\* dict(result) if isinstance(result, dict) else {'result': result}
AsDict(res) == IF res.ty = "dict" THEN res ELSE PyDict(<<Item("result", res)>>)

----------------------------------------------------------------------------
VARIABLES
    pc,                         \* "idle", "normalized", "postprocessed", "done", "raised"
    invocations,                \* calls served by this process so far
    delete_logs,                \* handler_decorator's arguments
    hide_stack_delete_failure,
    handlerName,                \* handler.__name__
    call,                       \* the entry point of the current call
    event, context,             \* its arguments
    outcome,                    \* what the wrapped handler does in this call
    physical_resource_id,       \* cfn_response's argument
    status, result,             \* handler_wrapper's locals (cfn_response's arguments)
    contextInfo,                \* the LambdaContext log line's JSON
    puts,                       \* the HTTP PUTs attempted in this call
    putOutcome,
    logDeletes,                 \* the delete_log_group calls issued in this call
    logDeleteOutcome,
    loggingDisabled,            \* logging.disable(logging.CRITICAL) was called
    returned,                   \* the call's return value
    raised                      \* the exception that escaped the call

vars == <<pc, invocations, delete_logs, hide_stack_delete_failure, handlerName, call,
          event, context, outcome, physical_resource_id, status, result, contextInfo,
          puts, putOutcome, logDeletes, logDeleteOutcome, loggingDisabled, returned,
          raised>>

decoration == <<delete_logs, hide_stack_delete_failure, handlerName>>

Init ==
    /\ pc = "idle"
    /\ invocations = 0
    /\ delete_logs \in BOOLEAN
    /\ hide_stack_delete_failure \in BOOLEAN
    /\ handlerName \in HandlerNames
    /\ call = "none"
    /\ event = NoEvent
    /\ context = NoContext
    /\ outcome = NoOutcome
    /\ physical_resource_id = PyNone
    /\ status = Unset
    /\ result = Unset
    /\ contextInfo = Unset
    /\ puts = <<>>
    /\ putOutcome = "none"
    /\ logDeletes = <<>>
    /\ logDeleteOutcome = "none"
    /\ loggingDisabled = FALSE
    /\ returned = Unset
    /\ raised = "none"

CanStart == pc = "idle" /\ invocations < MaxInvocations

\* handler_wrapper, lines 256-282: log the request, call the handler, sort
\* its outcome into status and result.
CallHandler ==
    /\ CanStart
    /\ \E ev \in Events, ctx \in Contexts, o \in HandlerOutcomes :
        LET n == Normalize(handlerName, o)
        IN  /\ event' = ev
            /\ context' = ctx
            /\ outcome' = o
            /\ status' = n.status
            /\ result' = n.result
            /\ contextInfo' =
                JsonDoc(PyDict(<<Item("log_stream_name", PyStr(<<ctx.log_stream_name>>)),
                                 Item("log_group_name", PyStr(<<ctx.log_group_name>>)),
                                 Item("identity", ctx.identity)>>),
                        "PythonObjectEncoder")
    /\ call' = "handler_wrapper"
    /\ pc' = "normalized"
    /\ invocations' = invocations + 1
    /\ physical_resource_id' = PyNone
    /\ puts' = <<>>
    /\ putOutcome' = "none"
    /\ logDeletes' = <<>>
    /\ logDeleteOutcome' = "none"
    /\ returned' = Unset
    /\ raised' = "none"
    /\ UNCHANGED <<decoration, loggingDisabled>>

\* handler_wrapper, lines 284-299: the Delete branches. status.isSuccess()
\* on a status that is no Status raises AttributeError; delete_log_group is
\* called outside any try.
DeletePostProcess ==
    /\ pc = "normalized"
    /\ IF event.RequestType # RequestType_DELETE
       THEN /\ pc' = "postprocessed"
            /\ UNCHANGED <<status, result, logDeletes, logDeleteOutcome, loggingDisabled,
                           raised>>
       ELSE LET h == HideFailure(status, result, hide_stack_delete_failure)
            IN  /\ status' = h.status
                /\ result' = h.result
                /\ IF ~IsStatus(h.status)
                   THEN /\ pc' = "raised"
                        /\ raised' = "AttributeError"
                        /\ UNCHANGED <<logDeletes, logDeleteOutcome, loggingDisabled>>
                   ELSE IF isSuccess(h.status) /\ delete_logs
                   THEN \E lo \in LogDeleteOutcomes :
                            /\ loggingDisabled' = TRUE
                            /\ logDeletes' = Append(logDeletes, context.log_group_name)
                            /\ logDeleteOutcome' = lo
                            /\ pc' = IF lo = "ok" THEN "postprocessed" ELSE "raised"
                            /\ raised' = IF lo = "ok" THEN "none" ELSE lo
                   ELSE /\ pc' = "postprocessed"
                        /\ UNCHANGED <<logDeletes, logDeleteOutcome, loggingDisabled,
                                       raised>>
    /\ UNCHANGED <<invocations, decoration, call, event, context, outcome,
                   physical_resource_id, contextInfo, puts, putOutcome, returned>>

\* handler_wrapper, lines 300-307: make result a dict, respond unless the
\* status is Finished, return result.
Respond ==
    /\ pc = "postprocessed"
    /\ result' = AsDict(result)
    /\ IF ~IsStatus(status)
       THEN /\ pc' = "raised"
            /\ raised' = "AttributeError"
            /\ UNCHANGED <<puts, putOutcome, returned>>
       ELSE IF isFinished(status)
       THEN /\ pc' = "done"
            /\ returned' = AsDict(result)
            /\ UNCHANGED <<puts, putOutcome, raised>>
       ELSE LET r == cfn_response(event, context, status, AsDict(result), PyNone)
            IN  IF r.raises # "none"
                THEN /\ pc' = "raised"
                     /\ raised' = r.raises
                     /\ UNCHANGED <<puts, putOutcome, returned>>
                ELSE \E po \in PutOutcomes :
                        /\ puts' = Append(puts, [url |-> event.ResponseURL, body |-> r.body])
                        /\ putOutcome' = po
                        /\ pc' = "done"
                        /\ returned' = AsDict(result)
                        /\ UNCHANGED raised
    /\ UNCHANGED <<invocations, decoration, call, event, context, outcome,
                   physical_resource_id, status, contextInfo, logDeletes,
                   logDeleteOutcome, loggingDisabled>>

\* cfn_response called by the handler's own code, not through the wrapper.
DirectResponse ==
    /\ CanStart
    /\ \E ev \in Events, ctx \in Contexts, st \in DirectStatuses, data \in DirectData,
          pid \in DirectPhysicalIds :
        LET r == cfn_response(ev, ctx, st, data, pid)
        IN  /\ event' = ev
            /\ context' = ctx
            /\ status' = st
            /\ result' = data
            /\ physical_resource_id' = pid
            /\ IF r.raises # "none"
               THEN /\ pc' = "raised"
                    /\ raised' = r.raises
                    /\ puts' = <<>>
                    /\ putOutcome' = "none"
                    /\ returned' = Unset
               ELSE IF ~r.put
               THEN /\ pc' = "done"
                    /\ raised' = "none"
                    /\ puts' = <<>>
                    /\ putOutcome' = "none"
                    /\ returned' = PyNone
               ELSE \E po \in PutOutcomes :
                        /\ pc' = "done"
                        /\ raised' = "none"
                        /\ puts' = <<[url |-> ev.ResponseURL, body |-> r.body]>>
                        /\ putOutcome' = po
                        /\ returned' = PutReturn(po)
    /\ call' = "cfn_response"
    /\ outcome' = NoOutcome
    /\ contextInfo' = Unset
    /\ invocations' = invocations + 1
    /\ logDeletes' = <<>>
    /\ logDeleteOutcome' = "none"
    /\ UNCHANGED <<decoration, loggingDisabled>>

\* The call is over (it returned or raised): its arguments and locals are
\* gone, the process waits for the next one with its module state.
Return ==
    /\ pc \in {"done", "raised"}
    /\ invocations < MaxInvocations
    /\ pc' = "idle"
    /\ call' = "none"
    /\ event' = NoEvent
    /\ context' = NoContext
    /\ outcome' = NoOutcome
    /\ physical_resource_id' = PyNone
    /\ status' = Unset
    /\ result' = Unset
    /\ contextInfo' = Unset
    /\ puts' = <<>>
    /\ putOutcome' = "none"
    /\ logDeletes' = <<>>
    /\ logDeleteOutcome' = "none"
    /\ returned' = Unset
    /\ raised' = "none"
    /\ UNCHANGED <<invocations, decoration, loggingDisabled>>

Next ==
    \/ CallHandler
    \/ DeletePostProcess
    \/ Respond
    \/ DirectResponse
    \/ Return

Spec == Init /\ [][Next]_vars

----------------------------------------------------------------------------
\* Properties

WrapperCall == call = "handler_wrapper"
Ended == pc \in {"done", "raised"}
HandlerReturned(v) == outcome.kind = "return" /\ outcome.val = v
HandlerRaised == outcome.kind = "raise"

\* The fields of the i-th PUT's body, as the receiver decodes them.
Delivered(i, field) == JsonLoads(DictGet(puts[i].body, field, Val("null", <<>>, <<>>)))

\* The handler failed: it raised, returned a false value, or a FAILED status.
HandlerFailure ==
    \/ HandlerRaised
    \/ /\ outcome.kind = "return"
       /\ outcome.val \in FalseLike \cup {EmptyDict, Status_FAILED, HandlerFailed}

\* C1: a handler that returns a Finished marker makes handler_wrapper issue
\* no PUT and return {}, whatever the request type and the decorator's
\* arguments; cfn_response called with a Finished status issues no PUT.
C1_FinishedIsNotDelivered ==
    /\ (WrapperCall /\ Ended /\ outcome.kind = "return" /\ outcome.val \in FinishedMarkers)
        => (puts = <<>> /\ pc = "done" /\ returned = EmptyDict)
    /\ (call = "cfn_response" /\ Ended /\ status \in FinishedMarkers) => puts = <<>>

C3_DeleteFailureIsHidden ==
    (WrapperCall /\ pc = "done" /\ event.RequestType = RequestType_DELETE
     /\ hide_stack_delete_failure /\ HandlerFailure)
        => /\ Len(puts) = 1
           /\ Delivered(1, "Status") = PyStr(<<"SUCCESS">>)
           /\ HasKey(Delivered(1, "Data"), "result")
           /\ Contains(DictGet(Delivered(1, "Data"), "result", PyNone).txt, <<HideWarning>>)

\* C4: a handler that returns (S, M), S a Status and M a mapping, gets a
\* payload with Status S.value and Data M delivered, and M returned (stated
\* for the calls in which no log group deletion failed).
C4_StatusAndMapping ==
    (WrapperCall /\ Ended /\ outcome.kind = "return" /\ outcome.val \in StatusFirstPairs
     /\ logDeleteOutcome # "ClientError")
        => /\ pc = "done"
           /\ Len(puts) = 1
           /\ Delivered(1, "Status") = StatusValue(outcome.val.items[1])
           /\ Delivered(1, "Data") = outcome.val.items[2]
           /\ returned = outcome.val.items[2]

\* C5: a false value other than None that the handler returns (False, 0, '',
\* {}, [], ()) gives status FAILED before the Delete handling, and False gives
\* a result whose 'result' is a message that names the handler.
C5_FalseLikeIsFailed ==
    (WrapperCall /\ pc = "normalized" /\ outcome.kind = "return"
     /\ ~IsStatus(outcome.val) /\ ~Truthy(outcome.val) /\ outcome.val # PyNone)
        => /\ IsStatus(status)
           /\ StatusValue(status) = PyStr(<<"FAILED">>)
           /\ HandlerReturned(PyFalse)
                => /\ result.ty = "dict"
                   /\ DictGet(result, "result", PyNone).ty = "str"
                   /\ Contains(DictGet(result, "result", PyNone).txt, handlerName)

C5_Witness ==
    /\ WrapperCall /\ pc = "normalized"
    /\ HandlerReturned(PyFalse)
    /\ status = Status_FAILED
    /\ HasKey(result, "result")

\* C6 as claimed: a handler that returns None on Create or Update gets Status
\* SUCCESS and Data {} delivered, and {} returned.
C6_NothingIsSuccess ==
    (WrapperCall /\ Ended /\ HandlerReturned(PyNone)
     /\ event.RequestType \in {RequestType_CREATE, RequestType_UPDATE})
        => /\ pc = "done"
           /\ Len(puts) = 1
           /\ Delivered(1, "Status") = PyStr(<<"SUCCESS">>)
           /\ Delivered(1, "Data") = EmptyDict
           /\ returned = EmptyDict

\* C6 as amended: a handler that returns None on Create or Update gets Status
\* FAILED and Data {} delivered, and {} returned.
C6_NothingIsFailed ==
    (WrapperCall /\ Ended /\ HandlerReturned(PyNone)
     /\ event.RequestType \in {RequestType_CREATE, RequestType_UPDATE})
        => /\ pc = "done"
           /\ Len(puts) = 1
           /\ Delivered(1, "Status") = PyStr(<<"FAILED">>)
           /\ Delivered(1, "Data") = EmptyDict
           /\ returned = EmptyDict

C6_Witness ==
    /\ WrapperCall /\ pc = "done"
    /\ HandlerReturned(PyNone)
    /\ event.RequestType = RequestType_CREATE
    /\ Len(puts) = 1
    /\ returned = EmptyDict

\* C7: handler_wrapper never raises and what it returns is a mapping.
C7_NeverRaises ==
    WrapperCall => /\ pc # "raised"
                   /\ raised = "none"
                   /\ pc = "done" => returned.ty = "dict"

\* C8: when the handler returns a mapping, every value of Data in the body
\* delivered is a string, and {'sum': 3.5} is delivered as Data {'sum': '3.5'}.
C8_DataValuesAreStrings ==
    \A i \in 1..Len(puts) :
        (WrapperCall /\ outcome.kind = "return" /\ outcome.val \in Mappings)
            => /\ \A j \in 1..Len(Delivered(i, "Data").items) :
                    Delivered(i, "Data").items[j].items[1].ty = "str"
               /\ HandlerReturned(SumDict)
                    => Delivered(i, "Data") = PyDict(<<Item("sum", PyStr(<<"3.5">>))>>)

\* C9: a call of handler_wrapper whose status is a Status that is not
\* Finished attempts exactly one PUT, with that status, also when the log
\* group's deletion fails.
C9_ExactlyOnePut ==
    (WrapperCall /\ Ended /\ IsStatus(status) /\ ~isFinished(status))
        => /\ Len(puts) = 1
           /\ Delivered(1, "Status") = StatusValue(status)

\* C10: once the Delete handling is over, delete_log_group has been called
\* with the context's log group if the request is a Delete, delete_logs is
\* set and the status is a success; it has not been called if delete_logs is
\* False, if the request is no Delete, or if the handler failed.
C10_LogDeletion ==
    (WrapperCall /\ pc \in {"postprocessed", "done", "raised"})
        => /\ (event.RequestType = RequestType_DELETE /\ delete_logs
               /\ IsStatus(status) /\ isSuccess(status))
                => logDeletes = <<context.log_group_name>>
           /\ (~delete_logs \/ event.RequestType # RequestType_DELETE \/ HandlerFailure)
                => logDeletes = <<>>

====
